---- MODULE Spec2Model ----
(***************************************************************************)
(* Model of the word-sense disambiguation core of salton-ir                *)
(* (src/src/preprocessing.py, class WordSenseDisambiguator).               *)
(*                                                                         *)
(* disambiguate(terms) tags the terms, then for every tagged term calls    *)
(* _find_best_sense, which builds the context of the term, enumerates the  *)
(* candidate senses of (term, part of speech) and keeps the candidate      *)
(* whose context score is the greatest and above 0.                        *)
(*                                                                         *)
(* Python values are modelled as follows.                                  *)
(*   - a surface form and a sense name are strings; Python's None result   *)
(*     of a term is the string "None";                                     *)
(*   - a part-of-speech tag is a sequence of one-character strings, so     *)
(*     that tag[0] is Head(tag);                                           *)
(*   - a float is an integer number of tenths (5 is 0.5); the values the   *)
(*     taxonomies are drawn from are 0, 0.5 and 1.0, whose sums are exact  *)
(*     in binary floating point, so integer sums order like float sums;   *)
(*   - an Optional[float] is a record [kind, score], kind "None" or        *)
(*     "float"; the outcome of Synset.path_similarity has the third kind   *)
(*     "raise" for a call that raises.                                     *)
(* Indices are Python's: idx counts from 0, tagged_terms[idx] is the       *)
(* element idx + 1 of the TLA+ sequence.                                   *)
(***************************************************************************)
EXTENDS Integers, Sequences, FiniteSets, TLC

VARIABLES
    terms,            \* disambiguate's argument: the list of surface forms
    tagger,           \* the tags nltk.pos_tag gives to the terms, by position
    taxonomy,         \* the taxonomy: the similarity outcome of each free pair
    pc,               \* position in disambiguate: "start", "loop", "done"
    tagged_terms,     \* local tagged_terms
    idx,              \* loop index of enumerate(tagged_terms)
    results,          \* local results
    returned,         \* the list disambiguate returned ("None" before it returns)
    context_terms,    \* context_terms of the latest _find_best_sense call
    calls,            \* _safe_similarity calls of the latest _find_best_sense call
    entered,          \* what the latest call's max(...) generators yielded
    failing,          \* the surface forms for which wordnet.synsets raises
    self_pos_map,     \* the disambiguator's self._pos_map
    raised,           \* the exception that left disambiguate (NoException: none)
    previous,         \* what the earlier calls on this disambiguator returned
    slots,            \* results written by index, in any order
    doc,              \* what process_single_document gives its caller
    treebank_tag,     \* argument of a _get_wordnet_pos call
    wordnet_pos,      \* what that call gave ("None" before the call)
    scrape,           \* scrape_papers: its arguments, locals and files
    indexer,          \* WhooshIndexer.index_documents: folder, locals, writer
    engine,           \* WhooshBenchmarkEngine: self.searcher and the searchers
    loader,           \* FileQueryLoader.parse_benchmark_file: file and locals
    evaluator,        \* MetricsEvaluator: arguments and values of the metrics
    processor         \* PDFDocumentProcessor.process_documents: folder, locals

\* The taxonomy and the tagger's answer: read, never written.
inputs == <<terms, tagger, taxonomy, failing>>

\* History of the latest _find_best_sense call.
history == <<context_terms, calls, entered>>

\* A lone _get_wordnet_pos call.
pos_call == <<treebank_tag, wordnet_pos>>

\* The other programs of the repository, one record each ("off": not run).
programs == <<scrape, indexer, engine, loader, evaluator, processor>>

vars == <<inputs, pc, tagged_terms, idx, results, returned, history,
          self_pos_map, raised, previous, slots, doc, pos_call, programs>>

----------------------------------------------------------------------------
(* Bounds of the model *)

\* Longest document of the scoring part of Init (every taxonomy, every tag).
MaxLen == 3

\* Longest document of the window part of Init (one taxonomy, noun tags).
MaxWindowLen == 11

\* Longest document of the session part (lookup failures, repeated calls,
\* results written in any order).
MaxSessionLen == 2

\* Longest tag handed to a lone _get_wordnet_pos call.
MaxTagLen == 3

----------------------------------------------------------------------------
(* Python helpers *)

Max2(a, b) == IF a >= b THEN a ELSE b

Min2(a, b) == IF a <= b THEN a ELSE b

PyNone == [kind |-> "None", score |-> 0]

Float(x) == [kind |-> "float", score |-> x]

Raise == [kind |-> "raise", score |-> 0]

\* How a call ends: it returns a value or raises exception exc(arg).
Returns(v) == [kind |-> "return", value |-> v, exc |-> "None", arg |-> "None"]

Raises(e, a) == [kind |-> "raise", value |-> "None", exc |-> e, arg |-> a]

\* process_single_document has not ended yet.
Pending == [kind |-> "pending", disambiguated_terms |-> <<>>]

\* No exception has left disambiguate.
NoException == [exc |-> "None", arg |-> "None"]

Range(seq) == {seq[k] : k \in 1..Len(seq)}

\* seq[start:end] of Python, for 0 <= start and end <= len(seq)
Slice(seq, start, end) == SubSeq(seq, start + 1, end)

----------------------------------------------------------------------------
(* The collaborators: the tagger's tags and the lexical taxonomy *)

\* Surface forms of the model's documents; "zzz" is out of vocabulary.
Terms == {"bank", "river", "zzz"}

NN == <<"N", "N">>

VB == <<"V", "B">>

\* Tags the tagger gives in the scoring part of Init.
Tags == {NN, VB}

\* Every surface form of the model: "money" occurs in one document only.
Vocabulary == Terms \cup {"money"}

\* Synsets of a surface form in WordNet's order (nouns before verbs).
Lemmas ==
    [t \in Vocabulary |->
        CASE t = "bank"  -> <<"bank.n.01", "bank.n.02", "bank.v.01">>
          [] t = "river" -> <<"river.n.01">>
          [] t = "money" -> <<"money.n.01">>
          [] OTHER       -> <<>>]

Senses ==
    UNION {{Lemmas[t][k] : k \in 1..Len(Lemmas[t])} : t \in Vocabulary}

\* Synset.pos(): the part of speech class of a sense.
SensePos(s) == IF s = "bank.v.01" THEN "v" ELSE "n"

\* wordnet.synsets(term, pos): pos "any" stands for the default pos=None.
synsets(term, pos) ==
    SelectSeq(Lemmas[term], LAMBDA s : pos = "any" \/ SensePos(s) = pos)

\* Similarity values of the taxonomies Init draws from, in tenths.
SimScores == {0, 5, 10}

SimOutcomes == {PyNone, Raise} \cup {Float(x) : x \in SimScores}

\* The pairs of senses whose similarity Init draws freely: a sense of "bank"
\* with the sense of "river".
FreePairs ==
    {{"bank.n.01", "river.n.01"}, {"bank.n.02", "river.n.01"},
     {"bank.v.01", "river.n.01"}}

Taxonomies == [FreePairs -> SimOutcomes]

\* The taxonomy of the window part of Init.
WindowTaxonomy ==
    [p \in FreePairs |->
        IF "bank.n.02" \in p /\ "river.n.01" \in p
        THEN Float(10) ELSE Float(5)]

\* sense1.path_similarity(sense2) in the taxonomy: symmetric, 1.0 for a
\* sense with itself, None (no path) between the senses of one word.
path_similarity(sense1, sense2) ==
    IF sense1 = sense2 THEN Float(10)
    ELSE IF {sense1, sense2} \in DOMAIN taxonomy THEN taxonomy[{sense1, sense2}]
    ELSE PyNone

----------------------------------------------------------------------------
(* WordSenseDisambiguator *)

\* self._pos_map
pos_map == [J |-> "a", V |-> "v", N |-> "n", R |-> "r"]

\* Mutant of get_wordnet_pos: the last character of the tag is looked up.
get_wordnet_pos_last_char(tag) ==
    IF tag = <<>> THEN "IndexError"
    ELSE IF tag[Len(tag)] \in DOMAIN self_pos_map
    THEN self_pos_map[tag[Len(tag)]]
    ELSE "n"

\* _get_wordnet_pos: self._pos_map.get(treebank_tag[0], wordnet.NOUN);
\* treebank_tag[0] of an empty tag raises IndexError.
get_wordnet_pos(tag) ==
    IF tag = <<>> THEN "IndexError"
    ELSE IF Head(tag) \in DOMAIN self_pos_map
    THEN self_pos_map[Head(tag)]
    ELSE "n"

\* Mutant of safe_similarity: a None of path_similarity is passed on as None.
safe_similarity_passes_none(sense1, sense2) ==
    LET similarity == path_similarity(sense1, sense2)
    IN  IF similarity.kind = "raise" THEN PyNone ELSE similarity

\* Mutant of safe_similarity: no except branch, what path_similarity raises
\* leaves the call.
safe_similarity_reraises(sense1, sense2) ==
    LET similarity == path_similarity(sense1, sense2)
    IN  IF similarity # PyNone THEN similarity ELSE Float(0)

\* _safe_similarity: None when path_similarity raises, 0.0 when it returns
\* None, its value otherwise.
safe_similarity(sense1, sense2) ==
    LET similarity == path_similarity(sense1, sense2)
    IN  IF similarity.kind = "raise" THEN PyNone
        ELSE IF similarity # PyNone THEN similarity
        ELSE Float(0)

\* Mutant of similarities: only the noun senses of the context term.
similarities_nouns_only(sense, context_term) ==
    LET ss  == synsets(context_term, "n")
        all == [k \in 1..Len(ss) |->
                   [context_sense |-> ss[k],
                    similarity    |-> safe_similarity(sense, ss[k])]]
    IN  SelectSeq(all, LAMBDA e : e.similarity # PyNone)

\* The generator handed to max() for one context term: for every sense of
\* the context term, in order, the similarity when it is not None.
similarities(sense, context_term) ==
    LET ss  == synsets(context_term, "any")
        all == [k \in 1..Len(ss) |->
                   [context_sense |-> ss[k],
                    similarity    |-> safe_similarity(sense, ss[k])]]
    IN  SelectSeq(all, LAMBDA e : e.similarity # PyNone)

\* Mutant of max_default: -1.0 for an empty generator, whatever the default.
max_default_negative(gen, default) ==
    IF gen = <<>> THEN -1
    ELSE LET vs == {gen[k].similarity.score : k \in 1..Len(gen)}
         IN  CHOOSE m \in vs : \A v \in vs : m >= v

\* max(generator, default=0.0)
max_default(gen, default) ==
    IF gen = <<>> THEN default
    ELSE LET vs == {gen[k].similarity.score : k \in 1..Len(gen)}
         IN  CHOOSE m \in vs : \A v \in vs : m >= v

RECURSIVE sum_of_max(_, _, _)
sum_of_max(sense, ctx, k) ==
    IF k = 0 THEN 0
    ELSE sum_of_max(sense, ctx, k - 1)
         + max_default(similarities(sense, ctx[k]), 0)

\* _compute_context_score: sum(max(..., default=0.0) for context_term in ...)
compute_context_score(sense, ctx) == sum_of_max(sense, ctx, Len(ctx))

\* context_terms of _find_best_sense (lines 106-108)
window_start(i) == Max2(0, i - 5)

window_end(tagged, i) == Min2(Len(tagged), i + 6)

\* Mutant of build_context: the window without the filter on the term.
build_context_keeps_self(term, tagged, i) ==
    LET win == Slice(tagged, window_start(i), window_end(tagged, i))
    IN  [k \in 1..Len(win) |-> win[k][1]]

build_context(term, tagged, i) ==
    LET win == Slice(tagged, window_start(i), window_end(tagged, i))
        ts  == [k \in 1..Len(win) |-> win[k][1]]
    IN  SelectSeq(ts, LAMBDA t : t # term)

\* Mutant of best_loop: max_score is not updated with best_sense.
RECURSIVE best_loop_stale_max(_, _, _, _, _)
best_loop_stale_max(cands, k, ctx, best_sense, max_score) ==
    IF k > Len(cands) THEN best_sense
    ELSE LET context_score == compute_context_score(cands[k], ctx)
         IN  IF context_score > max_score
             THEN best_loop_stale_max(cands, k + 1, ctx, cands[k], max_score)
             ELSE best_loop_stale_max(cands, k + 1, ctx, best_sense, max_score)

\* Mutant of best_loop: >= in place of >, so that a later candidate wins a tie.
RECURSIVE best_loop_ge(_, _, _, _, _)
best_loop_ge(cands, k, ctx, best_sense, max_score) ==
    IF k > Len(cands) THEN best_sense
    ELSE LET context_score == compute_context_score(cands[k], ctx)
         IN  IF context_score >= max_score
             THEN best_loop_ge(cands, k + 1, ctx, cands[k], context_score)
             ELSE best_loop_ge(cands, k + 1, ctx, best_sense, max_score)

\* Mutant of best_loop: the first candidate with a score above 0 is kept.
RECURSIVE best_loop_first_positive(_, _, _, _, _)
best_loop_first_positive(cands, k, ctx, best_sense, max_score) ==
    IF k > Len(cands) THEN best_sense
    ELSE LET context_score == compute_context_score(cands[k], ctx)
         IN  IF context_score > max_score /\ best_sense = "None"
             THEN best_loop_first_positive(cands, k + 1, ctx, cands[k],
                                           context_score)
             ELSE best_loop_first_positive(cands, k + 1, ctx, best_sense,
                                           max_score)

\* The loop of _find_best_sense over the candidates, from candidate k on,
\* with the loop's best_sense and max_score.
RECURSIVE best_loop(_, _, _, _, _)
best_loop(cands, k, ctx, best_sense, max_score) ==
    IF k > Len(cands) THEN best_sense
    ELSE LET context_score == compute_context_score(cands[k], ctx)
         IN  IF context_score > max_score
             THEN best_loop(cands, k + 1, ctx, cands[k], context_score)
             ELSE best_loop(cands, k + 1, ctx, best_sense, max_score)

\* Mutant of candidates: the part of speech is not handed to synsets.
candidates_any_pos(term, tag) == synsets(term, "any")

\* wordnet.synsets(term, pos=wordnet_pos) of _find_best_sense
candidates(term, tag) == synsets(term, get_wordnet_pos(tag))

\* Mutant of find_best_sense: max_score starts below every score.
find_best_sense_low_start(term, tag, tagged, i) ==
    best_loop(candidates(term, tag), 1, build_context(term, tagged, i),
              "None", -1)

\* Mutant of find_best_sense: best_sense starts as the sense of the term
\* before, in place of None.
find_best_sense_carries_best(term, tag, tagged, i) ==
    best_loop(candidates(term, tag), 1, build_context(term, tagged, i),
              IF results = <<>> THEN "None" ELSE results[Len(results)][2], 0)

\* _find_best_sense(term, tag, tagged_terms, idx): a sense name or "None"
find_best_sense(term, tag, tagged, i) ==
    best_loop(candidates(term, tag), 1, build_context(term, tagged, i),
              "None", 0)

\* Concatenation of the sequences f[1], ..., f[n]
RECURSIVE Flatten(_, _)
Flatten(f, n) == IF n = 0 THEN <<>> ELSE Flatten(f, n - 1) \o f[n]

\* Mutant of score_calls: a pair whose similarity raises or is None is
\* requested a second time.
score_calls_retry(sense, ctx) ==
    Flatten([k \in 1..Len(ctx) |->
                LET ss == synsets(ctx[k], "any")
                IN  Flatten([j \in 1..Len(ss) |->
                                IF path_similarity(sense, ss[j]).kind = "float"
                                THEN <<<<sense, ss[j]>>>>
                                ELSE <<<<sense, ss[j]>>, <<sense, ss[j]>>>>],
                            Len(ss))],
            Len(ctx))

\* The _safe_similarity calls of one _compute_context_score call, in order.
score_calls(sense, ctx) ==
    Flatten([k \in 1..Len(ctx) |->
                LET ss == synsets(ctx[k], "any")
                IN  [j \in 1..Len(ss) |-> <<sense, ss[j]>>]],
            Len(ctx))

\* The _safe_similarity calls of one _find_best_sense call, in order.
similarity_calls(term, tag, tagged, i) ==
    LET cands == candidates(term, tag)
        ctx   == build_context(term, tagged, i)
    IN  Flatten([k \in 1..Len(cands) |-> score_calls(cands[k], ctx)],
                Len(cands))

\* What the max() generators of one _find_best_sense call yielded.
yielded(term, tag, tagged, i) ==
    LET cands == candidates(term, tag)
        ctx   == build_context(term, tagged, i)
    IN  UNION {UNION {LET gen == similarities(cands[k], ctx[j])
                      IN  {[sense         |-> cands[k],
                            context_sense |-> gen[n].context_sense,
                            similarity    |-> gen[n].similarity]
                           : n \in 1..Len(gen)}
                     : j \in 1..Len(ctx)}
               : k \in 1..Len(cands)}

\* Mutant of find_best_sense_outcome: a lookup that raises is caught and the
\* term gets None.
find_best_sense_outcome_swallows(term, tag, tagged, i) ==
    LET ctx == build_context(term, tagged, i)
    IN  IF get_wordnet_pos(tag) = "IndexError"
        THEN Raises("IndexError", "treebank_tag")
        ELSE IF term \in failing THEN Returns("None")
        ELSE IF candidates(term, tag) # <<>> /\ Range(ctx) \cap failing # {}
        THEN Returns("None")
        ELSE Returns(find_best_sense(term, tag, tagged, i))

\* How a _find_best_sense call ends.  No try block encloses the
\* _get_wordnet_pos call or the two wordnet.synsets calls, so what they raise
\* leaves the call: IndexError for an empty tag, the lookup's own error for
\* the term and, when there is a candidate to score, for the first context
\* term whose lookup raises.  An exception leaving _safe_similarity would
\* leave the call too.
find_best_sense_outcome(term, tag, tagged, i) ==
    LET ctx == build_context(term, tagged, i)
        bad == {k \in 1..Len(ctx) : ctx[k] \in failing}
    IN  IF get_wordnet_pos(tag) = "IndexError"
        THEN Raises("IndexError", "treebank_tag")
        ELSE IF term \in failing THEN Raises("LookupError", term)
        ELSE IF candidates(term, tag) # <<>> /\ bad # {}
        THEN Raises("LookupError",
                    ctx[CHOOSE k \in bad : \A j \in bad : k <= j])
        ELSE IF \E c \in Range(candidates(term, tag)) :
                   \E t \in Range(ctx) : \E x \in Range(synsets(t, "any")) :
                       safe_similarity(c, x).kind = "raise"
        THEN Raises("SimilarityError", "path_similarity")
        ELSE Returns(find_best_sense(term, tag, tagged, i))

\* Mutant of pos_map_after: the class is taken out of the table, as by
\* self._pos_map.pop(treebank_tag[0], wordnet.NOUN).
pos_map_after_pop(m, tag) ==
    [c \in DOMAIN m \ {Head(tag)} |-> m[c]]

\* self._pos_map after self._pos_map.get(treebank_tag[0], wordnet.NOUN):
\* dict.get adds no key.
pos_map_after(m, tag) == m

----------------------------------------------------------------------------
(* disambiguate as a state machine *)

\* Mutant of append_result: a term without a sense is not appended.
append_resolved_only(res, term, best_sense) ==
    IF best_sense = "None" THEN res ELSE Append(res, <<term, best_sense>>)

\* results.append((term, best_sense.name() if best_sense else None))
append_result(res, term, best_sense) == Append(res, <<term, best_sense>>)

SeqsUpTo(S, n) == UNION {[1..k -> S] : k \in 0..n}

\* Short documents over every term and tag, against every taxonomy.
InitScoring ==
    /\ terms \in SeqsUpTo(Terms, MaxLen)
    /\ tagger \in [1..Len(terms) -> Tags]
    /\ taxonomy \in Taxonomies

\* Long documents, for the context window, against one taxonomy.
InitWindow ==
    /\ terms \in SeqsUpTo({"bank", "river"}, MaxWindowLen)
    /\ Len(terms) > MaxLen
    /\ tagger = [k \in 1..Len(terms) |-> NN]
    /\ taxonomy = WindowTaxonomy

\* The pairs of senses of two different words of bank, river and money.
ScenarioPairs ==
    {{a, b} : a \in {"bank.n.01", "bank.n.02", "bank.v.01"},
              b \in {"river.n.01", "money.n.01"}}
    \cup {{"river.n.01", "money.n.01"}}

\* The taxonomies in which shore is 0.9 similar to river, finance 0.6 to
\* money and every other pair zero or undefined.
ScenarioTaxonomies(finance, shore) ==
    {f \in [ScenarioPairs -> {PyNone, Float(0), Float(6), Float(9)}] :
        \A p \in ScenarioPairs :
            IF p = {shore, "river.n.01"} THEN f[p] = Float(9)
            ELSE IF p = {finance, "money.n.01"} THEN f[p] = Float(6)
            ELSE f[p] \in {PyNone, Float(0)}}

\* The document bank, river, money with the tag N, the two noun senses of
\* bank being finance and shore in either order.
InitScenario ==
    /\ terms = <<"bank", "river", "money">>
    /\ tagger = <<<<"N">>, <<"N">>, <<"N">>>>
    /\ \E finance, shore \in {"bank.n.01", "bank.n.02"} :
          /\ finance # shore
          /\ taxonomy \in ScenarioTaxonomies(finance, shore)

\* Similarity outcomes of the taxonomies of the session part.
SessionOutcomes == {PyNone, Raise, Float(5)}

\* Short documents, with surface forms whose lookup raises.
InitSession ==
    /\ terms \in SeqsUpTo(Terms, MaxSessionLen)
    /\ tagger \in [1..Len(terms) -> Tags]
    /\ taxonomy \in [FreePairs -> SessionOutcomes]
    /\ failing \in SUBSET {"bank", "river"}

\* A disambiguator after __init__, before its first disambiguate call.
Fresh ==
    /\ pc = "start"
    /\ tagged_terms = <<>>
    /\ idx = 0
    /\ results = <<>>
    /\ returned = "None"
    /\ context_terms = <<>>
    /\ calls = <<>>
    /\ entered = {}
    /\ self_pos_map = pos_map
    /\ raised = NoException
    /\ previous = <<>>
    /\ slots = {}
    /\ doc = Pending
    /\ treebank_tag = <<>>
    /\ wordnet_pos = "None"

\* None of the other programs runs.
OthersOff ==
    /\ scrape = "off"
    /\ indexer = "off"
    /\ engine = "off"
    /\ loader = "off"
    /\ evaluator = "off"
    /\ processor = "off"

Init ==
    /\ InitScoring \/ InitWindow \/ InitScenario
    /\ failing = {}
    /\ Fresh
    /\ OthersOff

\* Mutant of Tag: results is not emptied at the start of a call.
Tag_keeps_results ==
    /\ pc = "start"
    /\ tagged_terms' = [k \in 1..Len(terms) |-> <<terms[k], tagger[k]>>]
    /\ idx' = 0
    /\ pc' = "loop"
    /\ UNCHANGED <<inputs, results, returned, history, self_pos_map, raised,
                   previous, slots, doc, pos_call,
                   programs>>

\* tagged_terms = pos_tag(terms); results = []
Tag ==
    /\ pc = "start"
    /\ tagged_terms' = [k \in 1..Len(terms) |-> <<terms[k], tagger[k]>>]
    /\ results' = <<>>
    /\ idx' = 0
    /\ pc' = "loop"
    /\ UNCHANGED <<inputs, returned, history, self_pos_map, raised, previous,
                   slots, doc, pos_call,
                   programs>>

\* One iteration of the loop over enumerate(tagged_terms).
Iterate ==
    /\ pc = "loop"
    /\ idx < Len(tagged_terms)
    /\ LET term == tagged_terms[idx + 1][1]
           tag  == tagged_terms[idx + 1][2]
           out  == find_best_sense_outcome(term, tag, tagged_terms, idx)
       IN  /\ out.kind = "return"
           /\ results' = append_result(results, term, out.value)
           /\ context_terms' = build_context(term, tagged_terms, idx)
           /\ calls' = similarity_calls(term, tag, tagged_terms, idx)
           /\ entered' = yielded(term, tag, tagged_terms, idx)
           /\ self_pos_map' = pos_map_after(self_pos_map, tag)
    /\ idx' = idx + 1
    /\ UNCHANGED <<inputs, pc, tagged_terms, returned, raised, previous,
                   slots, doc, pos_call,
                   programs>>

\* An iteration in which _find_best_sense raises: the exception leaves
\* disambiguate, which has no try block, and its local results is lost.
IterateRaises ==
    /\ pc = "loop"
    /\ idx < Len(tagged_terms)
    /\ LET term == tagged_terms[idx + 1][1]
           tag  == tagged_terms[idx + 1][2]
           out  == find_best_sense_outcome(term, tag, tagged_terms, idx)
       IN  /\ out.kind = "raise"
           /\ raised' = [exc |-> out.exc, arg |-> out.arg]
    /\ pc' = "raised"
    /\ UNCHANGED <<inputs, tagged_terms, idx, results, returned, history,
                   self_pos_map, previous, slots, doc, pos_call,
                   programs>>

\* return results
Return ==
    /\ pc = "loop"
    /\ idx = Len(tagged_terms)
    /\ returned' = results
    /\ pc' = "done"
    /\ UNCHANGED <<inputs, tagged_terms, idx, results, history, self_pos_map,
                   raised, previous, slots, doc, pos_call,
                   programs>>

\* A second disambiguate call on the same disambiguator with the same terms.
CallAgain ==
    /\ pc = "done"
    /\ previous = <<>>
    /\ previous' = <<returned>>
    /\ returned' = "None"
    /\ pc' = "start"
    /\ UNCHANGED <<inputs, tagged_terms, idx, results, history, self_pos_map,
                   raised, slots, doc, pos_call,
                   programs>>

\* process_single_document, line 214 on: disambiguate has returned, the
\* document gets its result and is returned.
DocumentReturned ==
    /\ pc = "done"
    /\ doc = Pending
    /\ doc' = [kind |-> "document", disambiguated_terms |-> returned]
    /\ UNCHANGED <<inputs, pc, tagged_terms, idx, results, returned, history,
                   self_pos_map, raised, previous, slots, pos_call,
                   programs>>

\* process_single_document, except Exception: the error is logged and None
\* is returned in place of the document.
DocumentDropped ==
    /\ pc = "raised"
    /\ doc = Pending
    /\ doc' = [kind |-> "None", disambiguated_terms |-> <<>>]
    /\ UNCHANGED <<inputs, pc, tagged_terms, idx, results, returned, history,
                   self_pos_map, raised, previous, slots, pos_call,
                   programs>>

\* A worker of a driver that writes each result at its own index: it takes
\* any index i that has no result yet, whatever the sequential loop has done.
ProcessAny(i) ==
    /\ pc \in {"loop", "done"}
    /\ i \in 0..(Len(tagged_terms) - 1)
    /\ \A r \in slots : r[1] # i
    /\ LET term == tagged_terms[i + 1][1]
           tag  == tagged_terms[i + 1][2]
       IN  slots' = slots \cup
                      {<<i, term, find_best_sense(term, tag, tagged_terms, i)>>}
    /\ UNCHANGED <<inputs, pc, tagged_terms, idx, results, returned, history,
                   self_pos_map, raised, previous, doc, pos_call,
                   programs>>

\* A lone call self._get_wordnet_pos(treebank_tag).
GetWordnetPos ==
    /\ wordnet_pos = "None"
    /\ wordnet_pos' = get_wordnet_pos(treebank_tag)
    /\ self_pos_map' = IF treebank_tag = <<>> THEN self_pos_map
                       ELSE pos_map_after(self_pos_map, treebank_tag)
    /\ UNCHANGED <<inputs, pc, tagged_terms, idx, results, returned, history,
                   raised, previous, slots, doc, treebank_tag, programs>>

Next == Tag \/ Iterate \/ Return

Spec == Init /\ [][Next]_vars

SessionStart == InitSession /\ Fresh /\ OthersOff

\* Calls that may raise, within process_single_document, and a second call
\* after the first has returned.
NextSession ==
    \/ Tag
    \/ Iterate
    \/ IterateRaises
    \/ Return
    \/ CallAgain
    \/ DocumentReturned
    \/ DocumentDropped

SpecSession == SessionStart /\ [][NextSession]_vars

\* Short documents of nouns, against every taxonomy, on a fresh
\* disambiguator.
NounsStart ==
    /\ terms \in SeqsUpTo(Terms, MaxLen)
    /\ tagger = [k \in 1..Len(terms) |-> NN]
    /\ taxonomy \in Taxonomies
    /\ failing = {}
    /\ Fresh
    /\ OthersOff

SpecNouns == NounsStart /\ [][Next]_vars

\* Short documents whose every lookup succeeds.
AnyOrderStart ==
    /\ terms \in SeqsUpTo(Terms, MaxSessionLen)
    /\ tagger \in [1..Len(terms) -> Tags]
    /\ taxonomy \in [FreePairs -> SessionOutcomes]
    /\ failing = {}
    /\ Fresh
    /\ OthersOff

\* The sequential loop beside workers that take the indices in any order.
NextAnyOrder ==
    \/ Tag
    \/ Iterate
    \/ Return
    \/ \E i \in 0..(MaxSessionLen + 1) : ProcessAny(i)

SpecAnyOrder == AnyOrderStart /\ [][NextAnyOrder]_vars

\* The characters of the tags of lone _get_wordnet_pos calls.
TagChars == {"J", "V", "N", "R", "X", "n"}

\* A fresh disambiguator and any tag of at most MaxTagLen characters.
PosStart ==
    /\ terms = <<>>
    /\ tagger = <<>>
    /\ taxonomy = WindowTaxonomy
    /\ failing = {}
    /\ pc = "start"
    /\ tagged_terms = <<>>
    /\ idx = 0
    /\ results = <<>>
    /\ returned = "None"
    /\ context_terms = <<>>
    /\ calls = <<>>
    /\ entered = {}
    /\ self_pos_map = pos_map
    /\ raised = NoException
    /\ previous = <<>>
    /\ slots = {}
    /\ doc = Pending
    /\ treebank_tag \in SeqsUpTo(TagChars, MaxTagLen)
    /\ wordnet_pos = "None"
    /\ OthersOff

NextPos == GetWordnetPos

SpecPos == PosStart /\ [][NextPos]_vars

\* No disambiguator runs: no document, a fresh object.
DisambiguatorOff ==
    /\ terms = <<>>
    /\ tagger = <<>>
    /\ taxonomy = WindowTaxonomy
    /\ failing = {}
    /\ Fresh

----------------------------------------------------------------------------
(* scraping.py: scrape_papers *)

\* Most entries of the source listing, and the greatest limit.
MaxSource == 4

MaxLimit == 2

\* What happens to a paper of a page: it is downloaded and both files are
\* written, the download fails (download_document returns None), writing
\* the PDF file raises, or writing the abstract file raises.
PaperKinds == {"ok", "download_fails", "pdf_write_fails", "txt_write_fails"}

\* The pages of a listing of papers in which "page_break" ends a page.
RECURSIVE Pages(_)
Pages(listing) ==
    IF \A n \in 1..Len(listing) : listing[n] # "page_break" THEN <<listing>>
    ELSE LET b == CHOOSE n \in 1..Len(listing) :
                      /\ listing[n] = "page_break"
                      /\ \A m \in 1..(n - 1) : listing[m] # "page_break"
         IN  <<SubSeq(listing, 1, b - 1)>>
             \o Pages(SubSeq(listing, b + 1, Len(listing)))

\* CoreScraper.scrape_page(page_number): the papers of the page, [] for a
\* page without papers, a page whose fetch fails and every page past the
\* last one of the source.
scrape_page(page_number) ==
    IF page_number <= Len(scrape.source) THEN scrape.source[page_number]
    ELSE <<>>

\* current_page += 1.  Every page past the source is alike, so the counter
\* stops at the first of them.
next_page(current_page) == Min2(current_page + 1, Len(scrape.source) + 1)

\* Mutant of for_break: the for loop never breaks.
for_break_never(collected_count, limit) == FALSE

\* if collected_count >= limit: break
for_break(collected_count, limit) == collected_count >= limit

\* scrape_papers(limit) at its while loop, before the first test.
ScrapeStart ==
    /\ \E limit \in 0..MaxLimit :
       \E listing \in SeqsUpTo(PaperKinds \cup {"page_break"}, MaxSource) :
          scrape = [limit           |-> limit,
                    source          |-> Pages(listing),
                    pc              |-> "while",
                    current_page    |-> 1,
                    collected_count |-> 0,
                    papers          |-> <<>>,
                    k               |-> 1,
                    pdf_files       |-> {},
                    txt_files       |-> {},
                    counted         |-> {}]
    /\ indexer = "off"
    /\ engine = "off"
    /\ loader = "off"
    /\ evaluator = "off"
    /\ processor = "off"
    /\ DisambiguatorOff

\* while collected_count < limit
WhileTest ==
    /\ scrape.pc = "while"
    /\ scrape' = [scrape EXCEPT
                    !.pc = IF scrape.collected_count < scrape.limit
                           THEN "scrape_page" ELSE "returned"]
    /\ UNCHANGED <<inputs, pc, tagged_terms, idx, results, returned, history,
                   self_pos_map, raised, previous, slots, doc, pos_call,
                   indexer, engine, loader, evaluator, processor>>

\* papers = scraper.scrape_page(current_page); if not papers: next page
ScrapePage ==
    /\ scrape.pc = "scrape_page"
    /\ LET papers == scrape_page(scrape.current_page)
       IN  scrape' =
              IF papers = <<>>
              THEN [scrape EXCEPT !.papers = papers,
                                  !.current_page = next_page(@),
                                  !.pc = "while"]
              ELSE [scrape EXCEPT !.papers = papers, !.k = 1, !.pc = "for"]
    /\ UNCHANGED <<inputs, pc, tagged_terms, idx, results, returned, history,
                   self_pos_map, raised, previous, slots, doc, pos_call,
                   indexer, engine, loader, evaluator, processor>>

\* One turn of for paper in papers, and the end of the loop with
\* current_page += 1.
ForPaper ==
    /\ scrape.pc = "for"
    /\ LET paper == <<scrape.current_page, scrape.k>>
           kind  == scrape.papers[scrape.k]
       IN  scrape' =
              IF \/ scrape.k > Len(scrape.papers)
                 \/ for_break(scrape.collected_count, scrape.limit)
              THEN [scrape EXCEPT !.current_page = next_page(@),
                                  !.pc = "while"]
              ELSE IF kind = "ok"
              THEN [scrape EXCEPT !.pdf_files = @ \cup {paper},
                                  !.txt_files = @ \cup {paper},
                                  !.collected_count = @ + 1,
                                  !.counted = @ \cup {paper},
                                  !.k = @ + 1]
              ELSE IF kind = "txt_write_fails"
              THEN [scrape EXCEPT !.pdf_files = @ \cup {paper}, !.k = @ + 1]
              ELSE [scrape EXCEPT !.k = @ + 1]
    /\ UNCHANGED <<inputs, pc, tagged_terms, idx, results, returned, history,
                   self_pos_map, raised, previous, slots, doc, pos_call,
                   indexer, engine, loader, evaluator, processor>>

NextScrape == WhileTest \/ ScrapePage \/ ForPaper

SpecScrape == ScrapeStart /\ [][NextScrape]_vars

\* The loop goes on as long as it can.
SpecScrapeFair == SpecScrape /\ WF_vars(NextScrape)

----------------------------------------------------------------------------

(* indexing.py: WhooshIndexer.index_documents *)

\* Most files of a source folder.
MaxFolder == 3

\* A file of the source folder: loaded and added, load_document returns None
\* for it, writer.add_document raises for it, progress_callback raises after
\* it was added, or its name does not end with .txt.
TxtKinds == {"ok", "load_fails", "add_fails", "callback_raises", "not_txt"}

\* files = [f for f in os.listdir(self.src_folder) if f.endswith('.txt')],
\* as the positions of the files in the folder.
txt_files_of(folder) ==
    SelectSeq([n \in 1..Len(folder) |-> n],
              LAMBDA n : folder[n] # "not_txt")

\* Whether one turn of the loop of _process_documents adds the document of
\* a file of this kind to the writer (lines 177-180).
added_by(kind) == kind \in {"ok", "callback_raises"}

\* Mutant of counted_by: indexed_count += 1 comes before add_document.
counted_by_early(kind) == kind \in {"ok", "add_fails", "callback_raises"}

\* Whether that turn reaches indexed_count += 1.
counted_by(kind) == kind \in {"ok", "callback_raises"}

\* Mutant of after_except: the except branch does not cancel the writer.
after_except_keeps(writer) == writer

\* except Exception: writer.cancel() in index_documents.
after_except(writer) == "cancelled"

\* index_documents is called on a folder; writer.commit() will succeed or
\* raise.
IndexStart ==
    /\ \E folder \in SeqsUpTo(TxtKinds, MaxFolder) :
       \E commit \in {"ok", "raises"} :
          indexer = [folder        |-> folder,
                     commit        |-> commit,
                     pc            |-> "start",
                     files         |-> <<>>,
                     i             |-> 0,
                     indexed_count |-> 0,
                     added         |-> <<>>,
                     writer        |-> "none",
                     commits       |-> 0,
                     exception     |-> "None",
                     result        |-> 0]
    /\ scrape = "off"
    /\ engine = "off"
    /\ loader = "off"
    /\ evaluator = "off"
    /\ processor = "off"
    /\ DisambiguatorOff

\* index_documents up to the call of _process_documents: ValueError for a
\* folder without .txt files, a writer otherwise.
IndexDocuments ==
    /\ indexer.pc = "start"
    /\ LET files == txt_files_of(indexer.folder)
       IN  indexer' =
              IF files = <<>>
              THEN [indexer EXCEPT !.pc = "raised",
                                   !.exception = "ValueError"]
              ELSE [indexer EXCEPT !.files = files,
                                   !.writer = "open",
                                   !.pc = "loop"]
    /\ UNCHANGED <<inputs, pc, tagged_terms, idx, results, returned, history,
                   self_pos_map, raised, previous, slots, doc, pos_call,
                   scrape, engine, loader, evaluator, processor>>

\* One turn of for i, f_name in enumerate(files) of _process_documents.
ProcessFile ==
    /\ indexer.pc = "loop"
    /\ indexer.i < Len(indexer.files)
    /\ LET f_name == indexer.files[indexer.i + 1]
           kind   == indexer.folder[f_name]
       IN  indexer' =
              [indexer EXCEPT
                 !.added = IF added_by(kind) THEN Append(@, f_name) ELSE @,
                 !.indexed_count = IF counted_by(kind) THEN @ + 1 ELSE @,
                 !.i = @ + 1]
    /\ UNCHANGED <<inputs, pc, tagged_terms, idx, results, returned, history,
                   self_pos_map, raised, previous, slots, doc, pos_call,
                   scrape, engine, loader, evaluator, processor>>

\* writer.commit() and return indexed_count; a commit that raises leaves
\* _process_documents for the except branch of index_documents.
Commit ==
    /\ indexer.pc = "loop"
    /\ indexer.i = Len(indexer.files)
    /\ indexer' =
          IF indexer.commit = "ok"
          THEN [indexer EXCEPT !.writer = "committed",
                               !.commits = @ + 1,
                               !.result = indexer.indexed_count,
                               !.pc = "returned"]
          ELSE [indexer EXCEPT !.exception = "CommitError",
                               !.pc = "except"]
    /\ UNCHANGED <<inputs, pc, tagged_terms, idx, results, returned, history,
                   self_pos_map, raised, previous, slots, doc, pos_call,
                   scrape, engine, loader, evaluator, processor>>

\* except Exception as e: writer.cancel(); raise
Cancel ==
    /\ indexer.pc = "except"
    /\ indexer' = [indexer EXCEPT !.writer = after_except(@),
                                  !.pc = "raised"]
    /\ UNCHANGED <<inputs, pc, tagged_terms, idx, results, returned, history,
                   self_pos_map, raised, previous, slots, doc, pos_call,
                   scrape, engine, loader, evaluator, processor>>

NextIndex == IndexDocuments \/ ProcessFile \/ Commit \/ Cancel

SpecIndex == IndexStart /\ [][NextIndex]_vars

----------------------------------------------------------------------------

(* benchmark/engines/whoosh_engine.py: WhooshBenchmarkEngine *)

\* Most calls on one engine.
MaxCalls == 7

\* Mutant of prepare: a searcher is opened whether or not one is held.
prepare_always_opens(e) ==
    [e EXCEPT !.searcher = <<e.opened + 1>>,
              !.opened = @ + 1,
              !.open = @ \cup {e.opened + 1}]

\* prepare: if self.searcher is None: self.searcher = self.index.searcher().
\* self.searcher is <<>> for None and <<s>> for the searcher numbered s; open
\* holds the searchers opened and not closed.
prepare(e) ==
    IF e.searcher = <<>>
    THEN [e EXCEPT !.searcher = <<e.opened + 1>>,
                   !.opened = @ + 1,
                   !.open = @ \cup {e.opened + 1}]
    ELSE e

\* run_query: prepare when no searcher is held, then self.searcher.search;
\* searched holds, for every search, its searcher and whether it was open.
run_query(e) ==
    LET p == IF e.searcher = <<>> THEN prepare(e) ELSE e
    IN  [p EXCEPT !.searched =
            Append(@, [through |-> p.searcher,
                       open    |-> p.searcher # <<>>
                                   /\ p.searcher[1] \in p.open])]

\* run_benchmark: self.prepare(), then run_query for each of n queries.
RECURSIVE run_queries(_, _)
run_queries(e, n) == IF n = 0 THEN e ELSE run_queries(run_query(e), n - 1)

run_benchmark(e, n) == run_queries(prepare(e), n)

\* cleanup: close the searcher held, if any, and hold none.
cleanup(e) ==
    IF e.searcher # <<>>
    THEN [e EXCEPT !.open = @ \ {e.searcher[1]}, !.searcher = <<>>]
    ELSE e

\* A call on the engine: what it was and what the engine was before it.
Called(name, e, after) ==
    [after EXCEPT !.calls = @ + 1,
                  !.last = [call |-> name, held |-> e.searcher,
                            opened |-> e.opened],
                  !.searched = SubSeq(@, Len(e.searched) + 1, Len(@))]

\* The engine after __init__: self.searcher = None.
EngineStart ==
    /\ engine = [searcher |-> <<>>,
                 opened   |-> 0,
                 open     |-> {},
                 searched |-> <<>>,
                 calls    |-> 0,
                 last     |-> [call |-> "__init__", held |-> <<>>,
                               opened |-> 0]]
    /\ scrape = "off"
    /\ indexer = "off"
    /\ loader = "off"
    /\ evaluator = "off"
    /\ processor = "off"
    /\ DisambiguatorOff

Prepare ==
    /\ engine.calls < MaxCalls
    /\ engine' = Called("prepare", engine, prepare(engine))
    /\ UNCHANGED <<inputs, pc, tagged_terms, idx, results, returned, history,
                   self_pos_map, raised, previous, slots, doc, pos_call,
                   scrape, indexer, loader, evaluator, processor>>

RunQuery ==
    /\ engine.calls < MaxCalls
    /\ engine' = Called("run_query", engine, run_query(engine))
    /\ UNCHANGED <<inputs, pc, tagged_terms, idx, results, returned, history,
                   self_pos_map, raised, previous, slots, doc, pos_call,
                   scrape, indexer, loader, evaluator, processor>>

\* run_benchmark on a list of no, one or two queries.
RunBenchmark ==
    /\ engine.calls < MaxCalls
    /\ \E n \in 0..2 :
          engine' = Called("run_benchmark", engine, run_benchmark(engine, n))
    /\ UNCHANGED <<inputs, pc, tagged_terms, idx, results, returned, history,
                   self_pos_map, raised, previous, slots, doc, pos_call,
                   scrape, indexer, loader, evaluator, processor>>

Cleanup ==
    /\ engine.calls < MaxCalls
    /\ engine' = Called("cleanup", engine, cleanup(engine))
    /\ UNCHANGED <<inputs, pc, tagged_terms, idx, results, returned, history,
                   self_pos_map, raised, previous, slots, doc, pos_call,
                   scrape, indexer, loader, evaluator, processor>>

NextEngine == Prepare \/ RunQuery \/ RunBenchmark \/ Cleanup

SpecEngine == EngineStart /\ [][NextEngine]_vars

----------------------------------------------------------------------------

(* benchmark/loaders/file_loader.py: FileQueryLoader.parse_benchmark_file *)

\* Most lines of a benchmark file.
MaxLines == 4

\* The lines of a benchmark file, by what the loop makes of the stripped
\* line: empty, starting with #, matching query_pattern (with the text of
\* the query), matching entry_pattern, or matching neither.
Lines ==
    {[kind |-> "blank", text |-> ""],
     [kind |-> "comment", text |-> ""],
     [kind |-> "query", text |-> "q1"],
     [kind |-> "query", text |-> "q2"],
     [kind |-> "entry", text |-> ""],
     [kind |-> "other", text |-> ""]}

\* BenchmarkQuery(natural_language=current_query, ...,
\* expected_relevant_docs=len(current_relevance), ...)
BenchmarkQuery(current_query, current_relevance) ==
    [query |-> current_query, expected_relevant_docs |-> current_relevance]

\* if current_query is not None: queries.append(BenchmarkQuery(...)).
\* current_query is <<>> for None and <<text>> for a query text;
\* current_relevance is kept as the length of the list.
append_current(l) ==
    IF l.current_query # <<>>
    THEN Append(l.queries,
                BenchmarkQuery(l.current_query[1], l.current_relevance))
    ELSE l.queries

\* Mutant of raise_value_error: the queries parsed so far are returned.
raise_value_error_returns(l) ==
    [l EXCEPT !.pc = "returned", !.result = l.queries]

\* raise ValueError(... at line {line_num} ...): nothing is returned.
raise_value_error(l) ==
    [l EXCEPT !.pc = "raised",
              !.exception = [type |-> "ValueError", line_num |-> l.line_num]]

\* Mutant of at_end: the query read last is not appended.
at_end_drops_last(l) ==
    [l EXCEPT !.pc = "returned", !.result = l.queries]

\* After the loop: the last query is appended and queries is returned.
at_end(l) ==
    LET queries == append_current(l)
    IN  [l EXCEPT !.queries = queries, !.pc = "returned", !.result = queries]

\* The body of the loop for the line at l.line_num.
loop_body(l) ==
    LET line == l.file[l.line_num]
    IN  IF line.kind \in {"blank", "comment"} THEN l
        ELSE IF line.kind = "query"
        THEN [l EXCEPT !.queries = append_current(l),
                       !.current_query = <<line.text>>,
                       !.current_relevance = 0]
        ELSE IF line.kind = "entry"
        THEN IF l.current_query = <<>> THEN raise_value_error(l)
             ELSE [l EXCEPT !.current_relevance = @ + 1]
        ELSE raise_value_error(l)

\* parse_benchmark_file(file) before its loop.
LoaderStart ==
    /\ \E file \in SeqsUpTo(Lines, MaxLines) :
          loader = [file              |-> file,
                    line_num          |-> 0,
                    queries           |-> <<>>,
                    current_query     |-> <<>>,
                    current_relevance |-> 0,
                    pc                |-> "loop",
                    exception         |-> [type |-> "None", line_num |-> 0],
                    result            |-> <<>>]
    /\ scrape = "off"
    /\ indexer = "off"
    /\ engine = "off"
    /\ evaluator = "off"
    /\ processor = "off"
    /\ DisambiguatorOff

\* One turn of for line_num, line in enumerate(file, 1).
ReadLine ==
    /\ loader.pc = "loop"
    /\ loader.line_num < Len(loader.file)
    /\ loader' = loop_body([loader EXCEPT !.line_num = @ + 1])
    /\ UNCHANGED <<inputs, pc, tagged_terms, idx, results, returned, history,
                   self_pos_map, raised, previous, slots, doc, pos_call,
                   scrape, indexer, engine, evaluator, processor>>

\* The file is exhausted.
EndOfFile ==
    /\ loader.pc = "loop"
    /\ loader.line_num = Len(loader.file)
    /\ loader' = at_end(loader)
    /\ UNCHANGED <<inputs, pc, tagged_terms, idx, results, returned, history,
                   self_pos_map, raised, previous, slots, doc, pos_call,
                   scrape, indexer, engine, evaluator, processor>>

NextLoader == ReadLine \/ EndOfFile

SpecLoader == LoaderStart /\ [][NextLoader]_vars

----------------------------------------------------------------------------

(* benchmark/metrics/evaluator.py: MetricsEvaluator *)

\* Most results of a query, and the largest expected_relevant_docs.
MaxResults == 4
MaxExpected == 3

\* A float as an exact fraction num / den with den > 0; Zero is 0.0.
Frac(num, den) == [num |-> num, den |-> den]

Zero == Frac(0, 1)

\* a + b on fractions.
AddFrac(a, b) == Frac(a.num * b.den + b.num * a.den, a.den * b.den)

\* a / b on fractions, for b > 0.
DivFrac(a, b) == Frac(a.num * b.den, a.den * b.num)

\* sum(1 for r in results if r.relevance == 1.0)
relevant_in(search_results) ==
    Cardinality({i \in 1..Len(search_results) : search_results[i] = 1})

\* compute_precision_recall(results, expected_relevant), as the pair
\* <<precision, recall>>.
compute_precision_recall(search_results, expected_relevant) ==
    IF search_results = <<>> \/ expected_relevant = 0
    THEN <<Zero, Zero>>
    ELSE <<Frac(relevant_in(search_results), Len(search_results)),
           Frac(relevant_in(search_results), expected_relevant)>>

\* running_sum over the results from position i on: relevant_so_far / i is
\* added for every relevant result.
RECURSIVE running_sum(_, _)
running_sum(search_results, i) ==
    IF i > Len(search_results) THEN Zero
    ELSE IF search_results[i] = 1
    THEN AddFrac(Frac(relevant_in(SubSeq(search_results, 1, i)), i),
                 running_sum(search_results, i + 1))
    ELSE running_sum(search_results, i + 1)

\* compute_average_precision(results)
compute_average_precision(search_results) ==
    IF search_results = <<>> THEN Zero
    ELSE IF relevant_in(search_results) = 0 THEN Zero
    ELSE DivFrac(running_sum(search_results, 1),
                 Frac(relevant_in(search_results), 1))

\* scores[0] plus score / (i + 1) for the i-th of scores[1:], i from 1:
\* the score at position k of the list, counted from 1, is divided by k.
RECURSIVE discounted(_, _)
discounted(scores, k) ==
    IF k > Len(scores) THEN Zero
    ELSE AddFrac(Frac(scores[k], k), discounted(scores, k + 1))

\* sorted(scores, reverse=True) for scores that are 0 or 1.
sorted_reverse(scores) ==
    [k \in 1..Len(scores) |-> IF k <= relevant_in(scores) THEN 1 ELSE 0]

\* compute_ndcg(results)
compute_ndcg(search_results) ==
    IF search_results = <<>> THEN Zero
    ELSE LET dcg  == discounted(search_results, 1)
             idcg == discounted(sorted_reverse(search_results), 1)
         IN  IF idcg.num > 0 THEN DivFrac(dcg, idcg) ELSE Zero

\* evaluate(benchmark_result) before its first statement: the relevance
\* values of the results and query.expected_relevant_docs.
EvaluatorStart ==
    /\ \E results_in \in SeqsUpTo({0, 1}, MaxResults),
          expected_relevant \in 0..MaxExpected :
          evaluator = [results           |-> results_in,
                       expected_relevant |-> expected_relevant,
                       pc                |-> "precision_recall",
                       precision         |-> Zero,
                       recall            |-> Zero,
                       ndcg              |-> Zero,
                       average_precision |-> Zero]
    /\ scrape = "off"
    /\ indexer = "off"
    /\ engine = "off"
    /\ loader = "off"
    /\ processor = "off"
    /\ DisambiguatorOff

\* precision, recall = self.compute_precision_recall(results, ...)
ComputePrecisionRecall ==
    /\ evaluator.pc = "precision_recall"
    /\ LET pr == compute_precision_recall(evaluator.results,
                                          evaluator.expected_relevant)
       IN  evaluator' = [evaluator EXCEPT !.precision = pr[1],
                                          !.recall = pr[2],
                                          !.pc = "ndcg"]
    /\ UNCHANGED <<inputs, pc, tagged_terms, idx, results, returned, history,
                   self_pos_map, raised, previous, slots, doc, pos_call,
                   scrape, indexer, engine, loader, processor>>

\* ndcg = self.compute_ndcg(results)
ComputeNdcg ==
    /\ evaluator.pc = "ndcg"
    /\ evaluator' = [evaluator EXCEPT !.ndcg = compute_ndcg(evaluator.results),
                                      !.pc = "average_precision"]
    /\ UNCHANGED <<inputs, pc, tagged_terms, idx, results, returned, history,
                   self_pos_map, raised, previous, slots, doc, pos_call,
                   scrape, indexer, engine, loader, processor>>

\* ap = self.compute_average_precision(results); return MetricResult(...)
ComputeAveragePrecision ==
    /\ evaluator.pc = "average_precision"
    /\ evaluator' = [evaluator EXCEPT
                        !.average_precision =
                            compute_average_precision(evaluator.results),
                        !.pc = "returned"]
    /\ UNCHANGED <<inputs, pc, tagged_terms, idx, results, returned, history,
                   self_pos_map, raised, previous, slots, doc, pos_call,
                   scrape, indexer, engine, loader, processor>>

NextEvaluator ==
    ComputePrecisionRecall \/ ComputeNdcg \/ ComputeAveragePrecision

SpecMetrics == EvaluatorStart /\ [][NextEvaluator]_vars

----------------------------------------------------------------------------

(* preprocessing.py: PDFDocumentProcessor.process_documents *)

\* The size of the large source folder.
ManyPdfFiles == 101

\* What becomes of a file of the source folder: "ok" is processed and
\* saved, "save_fails" is processed but its tokens file cannot be written,
\* "fails" makes process_single_document return None, "not_pdf" has a name
\* that does not end with .pdf.
PdfKinds == {"ok", "save_fails", "fails", "not_pdf"}

\* files = [f for f in os.listdir(self.src_folder) if f.endswith('.pdf')],
\* a file being its position in the folder.
pdf_files_of(folder) ==
    SelectSeq([n \in 1..Len(folder) |-> n],
              LAMBDA n : folder[n] # "not_pdf")

\* process_single_document(f_name) returns a document (TRUE) or None.
process_single_document(kind) == kind \in {"ok", "save_fails"}

\* Mutant of progress_of: the percentage of the files before this one.
progress_of_before(i, total_files) == (i * 100) \div total_files

\* int((i + 1) / total_files * 100); for the folder sizes used here the
\* float expression has the value of this integer quotient.
progress_of(i, total_files) == ((i + 1) * 100) \div total_files

\* process_documents(progress_callback) before its first statement, for
\* every small folder and for a folder of ManyPdfFiles good files.
ProcessorStart ==
    /\ \E folder \in SeqsUpTo(PdfKinds, MaxFolder)
                       \cup {[k \in 1..ManyPdfFiles |-> "ok"]},
          progress_callback \in {"None", "given"} :
          processor = [folder            |-> folder,
                       progress_callback |-> progress_callback,
                       pc                |-> "start",
                       files             |-> <<>>,
                       i                 |-> 0,
                       processed_docs    |-> <<>>,
                       tokens_files      |-> <<>>,
                       callbacks         |-> <<>>,
                       exception         |-> "None",
                       result            |-> <<>>]
    /\ scrape = "off"
    /\ indexer = "off"
    /\ engine = "off"
    /\ loader = "off"
    /\ evaluator = "off"
    /\ DisambiguatorOff

\* The PDF files are listed; an empty list raises ValueError.
ListFiles ==
    /\ processor.pc = "start"
    /\ LET files == pdf_files_of(processor.folder)
       IN  processor' =
              IF files = <<>>
              THEN [processor EXCEPT !.pc = "raised",
                                     !.exception = "ValueError"]
              ELSE [processor EXCEPT !.pc = "loop", !.files = files]
    /\ UNCHANGED <<inputs, pc, tagged_terms, idx, results, returned, history,
                   self_pos_map, raised, previous, slots, doc, pos_call,
                   scrape, indexer, engine, loader, evaluator>>

\* One turn of for i, f_name in enumerate(files): the file is processed,
\* appended and saved, then the callback gets the percentage.
ProcessFileTurn ==
    /\ processor.pc = "loop"
    /\ processor.i < Len(processor.files)
    /\ LET i           == processor.i
           f_name      == processor.files[i + 1]
           kind        == processor.folder[f_name]
           total_files == Len(processor.files)
           p1 == IF process_single_document(kind)
                 THEN [processor EXCEPT
                          !.processed_docs = Append(@, f_name),
                          !.tokens_files =
                              IF kind = "ok" THEN Append(@, f_name) ELSE @]
                 ELSE processor
           p2 == IF processor.progress_callback # "None"
                 THEN [p1 EXCEPT !.callbacks =
                          Append(@, [file     |-> f_name,
                                     progress |-> progress_of(i, total_files)])]
                 ELSE p1
       IN  processor' = [p2 EXCEPT !.i = @ + 1]
    /\ UNCHANGED <<inputs, pc, tagged_terms, idx, results, returned, history,
                   self_pos_map, raised, previous, slots, doc, pos_call,
                   scrape, indexer, engine, loader, evaluator>>

\* return processed_docs
ReturnDocuments ==
    /\ processor.pc = "loop"
    /\ processor.i >= Len(processor.files)
    /\ processor' = [processor EXCEPT !.pc = "returned",
                                      !.result = processor.processed_docs]
    /\ UNCHANGED <<inputs, pc, tagged_terms, idx, results, returned, history,
                   self_pos_map, raised, previous, slots, doc, pos_call,
                   scrape, indexer, engine, loader, evaluator>>

NextProcessor == ListFiles \/ ProcessFileTurn \/ ReturnDocuments

SpecProcess == ProcessorStart /\ [][NextProcessor]_vars

----------------------------------------------------------------------------

(* Properties *)

\* The latest _find_best_sense call has returned: its index, term, tag and
\* result, and the candidate senses the taxonomy has for the term.
Acted == pc = "loop" /\ idx > 0

LastIdx == idx - 1

LastTerm == tagged_terms[idx][1]

LastTag == tagged_terms[idx][2]

LastSense == results[idx][2]

LastCandidates == synsets(LastTerm, get_wordnet_pos(LastTag))

IndexOf(seq, x) == CHOOSE k \in 1..Len(seq) : seq[k] = x

InSeq(seq, x) == \E k \in 1..Len(seq) : seq[k] = x

\* The senses of a surface form over all part-of-speech classes.
AllSenses(t) ==
    UNION {LET ss == synsets(t, pos) IN {ss[k] : k \in 1..Len(ss)}
           : pos \in {"a", "v", "n", "r"}}

\* The defined similarities between sense c and the senses of t.
DefinedSims(c, t) ==
    {path_similarity(c, s).score :
        s \in {x \in AllSenses(t) : path_similarity(c, x).kind = "float"}}

SetMax(S) == CHOOSE m \in S : \A v \in S : m >= v

\* What context term t adds to the score of c: the greatest defined
\* similarity, 0 when there is none.
Contribution(c, t) ==
    LET sims == DefinedSims(c, t)
    IN  IF sims = {} THEN 0 ELSE SetMax(sims)

\* The sum of by[ctx[k]] over the positions k of ctx from position k on.
RECURSIVE SumFrom(_, _, _)
SumFrom(by, ctx, k) ==
    IF k > Len(ctx) THEN 0 ELSE by[ctx[k]] + SumFrom(by, ctx, k + 1)

\* The sum of the contributions of the context terms to the score of c.
SumOfContributions(c, ctx) ==
    LET by == [t \in {ctx[k] : k \in 1..Len(ctx)} |-> Contribution(c, t)]
    IN  SumFrom(by, ctx, 1)

\* C1: disambiguate returns one result per tagged term, in the order of the
\* input, each with the surface form of its term; while it runs, results
\* holds exactly the terms processed so far, in order.
C1_OrderPreserved ==
    /\ pc # "start" =>
          /\ Len(results) = idx
          /\ \A k \in 1..Len(results) : results[k][1] = tagged_terms[k][1]
    /\ pc = "done" =>
          /\ Len(returned) = Len(terms)
          /\ Len(returned) = Len(tagged_terms)
          /\ \A k \in 1..Len(returned) :
                /\ returned[k][1] = terms[k]
                /\ returned[k][1] = tagged_terms[k][1]

\* C1 witness: a returned document of MaxLen terms, one with a sense and one
\* without.
C1_Witness ==
    /\ pc = "done"
    /\ Len(returned) = MaxLen
    /\ \E j, k \in 1..Len(returned) :
          returned[j][2] = "None" /\ returned[k][2] # "None"

\* The surface forms at the positions of [lo, hi) except position i, in order
\* (positions count from 0).
RECURSIVE FormsExcept(_, _, _, _)
FormsExcept(tagged, lo, hi, i) ==
    IF lo >= hi THEN <<>>
    ELSE (IF lo = i THEN <<>> ELSE <<tagged[lo + 1][1]>>)
         \o FormsExcept(tagged, lo + 1, hi, i)

\* C2: the context of term i is the ordered surface forms at the positions of
\* [max(0, i-5), min(N, i+6)) except position i itself, also when a neighbour
\* has the surface form of the term.
C2_ContextIsWindowExceptSelf ==
    Acted =>
        context_terms =
            FormsExcept(tagged_terms,
                        IF LastIdx - 5 > 0 THEN LastIdx - 5 ELSE 0,
                        IF LastIdx + 6 < Len(tagged_terms)
                        THEN LastIdx + 6 ELSE Len(tagged_terms),
                        LastIdx)

\* C3: when some candidate of the term has a score above 0, the sense found
\* is a candidate of (term, part-of-speech class) and no candidate has a
\* greater score.
C3_BestIsMaximal ==
    (Acted /\ \E k \in 1..Len(LastCandidates) :
                 compute_context_score(LastCandidates[k], context_terms) > 0)
    => /\ InSeq(LastCandidates, LastSense)
       /\ \A k \in 1..Len(LastCandidates) :
             compute_context_score(LastSense, context_terms)
                 >= compute_context_score(LastCandidates[k], context_terms)

\* C3 witness: the second candidate was found, with a greater score than a
\* first candidate whose score is above 0 too.
C3_Witness ==
    /\ Acted
    /\ Len(LastCandidates) >= 2
    /\ LastSense = LastCandidates[2]
    /\ compute_context_score(LastCandidates[1], context_terms) > 0
    /\ compute_context_score(LastCandidates[2], context_terms)
           > compute_context_score(LastCandidates[1], context_terms)

\* C4: the score of every candidate sense against the context is the sum,
\* over the context terms, of the greatest defined similarity between the
\* candidate and a sense of the context term in any part-of-speech class, 0
\* when the context term has no sense or no defined similarity.
C4_ScoreIsSumOfMaxima ==
    Acted =>
        \A k \in 1..Len(LastCandidates) :
            compute_context_score(LastCandidates[k], context_terms)
                = SumOfContributions(LastCandidates[k], context_terms)

\* C4 witness: the context holds a term without senses and a term of which
\* one sense has an undefined similarity to the candidate, another one that
\* raises and the third, a verb sense, a defined one above 0.
C4_Witness ==
    /\ Acted
    /\ LastSense = "river.n.01"
    /\ InSeq(context_terms, "zzz")
    /\ InSeq(context_terms, "bank")
    /\ path_similarity("river.n.01", "bank.n.01") = PyNone
    /\ path_similarity("river.n.01", "bank.n.02") = Raise
    /\ path_similarity("river.n.01", "bank.v.01") = Float(5)

\* C5: the sense found is the first, in the taxonomy's order, of the
\* candidates with its score: no earlier candidate has the same score.
C5_FirstOfTiedWins ==
    (Acted /\ LastSense # "None") =>
        \A k \in 1..Len(LastCandidates) :
            (LastCandidates[k] # LastSense
             /\ compute_context_score(LastCandidates[k], context_terms)
                    = compute_context_score(LastSense, context_terms))
            => k > IndexOf(LastCandidates, LastSense)

\* C5 witness: two candidates share the greatest score, above 0, and the
\* first of them was found.
C5_Witness ==
    /\ Acted
    /\ Len(LastCandidates) >= 2
    /\ LastSense = LastCandidates[1]
    /\ compute_context_score(LastCandidates[1], context_terms) > 0
    /\ compute_context_score(LastCandidates[2], context_terms)
           = compute_context_score(LastCandidates[1], context_terms)

\* No sense of a context term has a defined similarity above 0 to a candidate.
ZeroEvidence ==
    \A k \in 1..Len(LastCandidates) : \A j \in 1..Len(context_terms) :
        \A s \in AllSenses(context_terms[j]) :
            LET o == path_similarity(LastCandidates[k], s)
            IN  o.kind = "float" => o.score = 0

\* C6: with only undefined or zero similarities between the candidates and
\* the context (an empty context included) the result is none; a sense is
\* found only when some candidate has a score above 0.
C6_ZeroEvidenceIsNone ==
    Acted =>
        /\ ZeroEvidence => LastSense = "None"
        /\ LastSense # "None" =>
              \E k \in 1..Len(LastCandidates) :
                  SumOfContributions(LastCandidates[k], context_terms) > 0

\* C6 witness: a term with two candidates and a context term with senses,
\* every similarity between them zero, undefined or raising, and no sense
\* found.
C6_Witness ==
    /\ Acted
    /\ Len(LastCandidates) >= 2
    /\ InSeq(context_terms, "river")
    /\ path_similarity(LastCandidates[1], "river.n.01") = Float(0)
    /\ path_similarity(LastCandidates[2], "river.n.01") = PyNone
    /\ LastSense = "None"

\* C7: when the taxonomy has no candidate sense for (term, part-of-speech
\* class), the result is none and no similarity was computed for the term.
C7_NoCandidateIsNone ==
    (Acted /\ LastCandidates = <<>>) =>
        LastSense = "None" /\ calls = <<>>

\* C7 witness: a term with senses, none of them in the class of its tag, in a
\* context of terms that have senses.
C7_Witness ==
    /\ Acted
    /\ LastCandidates = <<>>
    /\ AllSenses(LastTerm) # {}
    /\ \E j \in 1..Len(context_terms) : AllSenses(context_terms[j]) # {}
    /\ LastSense = "None"

\* C8: on a document of one term disambiguate returns exactly one result,
\* without a sense.
C8_SingleTermIsNone ==
    (pc = "done" /\ Len(terms) = 1) =>
        Len(returned) = 1 /\ returned[1][2] = "None"

\* C8 witness: a returned document of one term that has two candidates.
C8_Witness ==
    /\ pc = "done"
    /\ Len(terms) = 1
    /\ Len(synsets(terms[1], get_wordnet_pos(tagger[1]))) = 2
    /\ Len(returned) = 1

\* C9: the context of the term at index 0 of a document of N > 1 terms has
\* min(5, N-1) elements, also when a following term has its surface form.
C9_FirstTermContextSize ==
    (pc = "loop" /\ idx = 1 /\ Len(tagged_terms) > 1) =>
        Len(context_terms) = (IF Len(tagged_terms) - 1 < 5
                              THEN Len(tagged_terms) - 1 ELSE 5)

----------------------------------------------------------------------------
(* Faults of the similarity computation *)

\* The taxonomy tax with every similarity that raises made undefined.
Undefine(tax) ==
    [p \in DOMAIN tax |-> IF tax[p] = Raise THEN PyNone ELSE tax[p]]

\* The defined similarities in tax between sense c and the senses of t.
DefinedSimsIn(tax, c, t) ==
    {10 : s \in {x \in AllSenses(t) : x = c}}
    \cup {tax[{c, s}].score :
             s \in {x \in AllSenses(t) :
                       /\ x # c
                       /\ {c, x} \in DOMAIN tax
                       /\ tax[{c, x}].kind = "float"}}

\* The score of sense c against ctx in the taxonomy tax.
ScoreIn(tax, c, ctx) ==
    LET by == [t \in Range(ctx) |->
                  LET sims == DefinedSimsIn(tax, c, t)
                  IN  IF sims = {} THEN 0 ELSE SetMax(sims)]
    IN  SumFrom(by, ctx, 1)

\* The sense of greatest score above 0 in tax, the first of them in the
\* order of cands, "None" when no score is above 0.
BestIn(tax, cands, ctx) ==
    LET score == [k \in 1..Len(cands) |-> ScoreIn(tax, cands[k], ctx)]
        top   == {k \in 1..Len(cands) :
                     /\ score[k] > 0
                     /\ \A j \in 1..Len(cands) : score[j] <= score[k]}
    IN  IF top = {} THEN "None"
        ELSE cands[CHOOSE k \in top : \A j \in top : k <= j]

\* C11: a similarity computation that raises never ends disambiguate: no
\* exception of the similarity leaves the call, a call whose lookups all
\* succeed never raises, every pair of a candidate and a context sense is
\* still computed, the sense of each term is the one found in the taxonomy
\* where the raising pairs are undefined, and the call returns one result for
\* every term.
C11_SimilarityFaultContained ==
    /\ raised.exc \in {"None", "LookupError"}
    /\ failing = {} => pc # "raised"
    /\ Acted =>
          /\ \A k \in 1..Len(LastCandidates) : \A t \in Range(context_terms) :
                \A s \in AllSenses(t) : InSeq(calls, <<LastCandidates[k], s>>)
          /\ LastSense = BestIn(Undefine(taxonomy), LastCandidates,
                                context_terms)
    /\ pc = "done" => Len(returned) = Len(terms)

\* C11 witness: the similarity of the first candidate of bank to river
\* raised, the second candidate was scored after it and found, and every term
\* of the document has its result.
C11_Witness ==
    /\ Acted
    /\ idx = Len(tagged_terms)
    /\ LastTerm = "bank"
    /\ context_terms = <<"river">>
    /\ path_similarity("bank.n.01", "river.n.01") = Raise
    /\ path_similarity("bank.n.02", "river.n.01") = Float(5)
    /\ LastSense = "bank.n.02"

----------------------------------------------------------------------------
(* Part-of-speech classes *)

\* The part-of-speech classes: ADJ, VERB, NOUN, ADV of wordnet.
Classes == {"a", "v", "n", "r"}

\* The class of a first character, by the mapping table.
ClassOf(c) ==
    CASE c = "J" -> "a"
      [] c = "V" -> "v"
      [] c = "N" -> "n"
      [] c = "R" -> "r"
      [] OTHER   -> "n"

\* C12: _get_wordnet_pos returns a class for every tag, the empty string
\* included, and NOUN for a tag that starts with none of J, V, N, R.
C12_EveryTagHasClass ==
    wordnet_pos # "None" =>
        /\ wordnet_pos \in Classes
        /\ (treebank_tag = <<>> \/ Head(treebank_tag) \notin {"J", "V", "N", "R"})
               => wordnet_pos = "n"

\* C13: the class of a tag with a first character is the class of that
\* character: J gives ADJ, V gives VERB, N gives NOUN, R gives ADV and every
\* other character NOUN, whatever follows it.
C13_ClassByFirstChar ==
    (wordnet_pos # "None" /\ treebank_tag # <<>>) =>
        wordnet_pos = ClassOf(Head(treebank_tag))

\* C13 witness: a tag of several characters that starts with R and goes on
\* with the first character of another class got ADV, and the mapping is the
\* one of __init__.
C13_Witness ==
    /\ Len(treebank_tag) >= 2
    /\ treebank_tag[1] = "R"
    /\ treebank_tag[2] = "V"
    /\ wordnet_pos = "r"
    /\ self_pos_map = pos_map

----------------------------------------------------------------------------
(* Repeated calls *)

\* C14: a second disambiguate call on the same disambiguator, with the same
\* terms, tags and taxonomy, gives term by term the results of the first
\* call and returns the same sequence.
C14_SecondRunSameOutput ==
    previous # <<>> =>
        /\ pc = "loop" =>
              /\ Len(results) <= Len(previous[1])
              /\ \A k \in 1..Len(results) : results[k] = previous[1][k]
        /\ pc = "done" => returned = previous[1]

\* C14 witness: the second call has returned a document of MaxSessionLen
\* terms, one of them with a sense.
C14_Witness ==
    /\ previous # <<>>
    /\ pc = "done"
    /\ Len(returned) = MaxSessionLen
    /\ \E k \in 1..Len(returned) : returned[k][2] # "None"

----------------------------------------------------------------------------
(* The bank, river, money example *)

\* The document is bank, river, money, every term tagged as a noun, the
\* candidates of bank are finance and shore, shore is 0.9 similar to the
\* sense of river, finance 0.6 to the sense of money and every other pair of
\* different senses zero or undefined.
IsScenario(finance, shore) ==
    /\ terms = <<"bank", "river", "money">>
    /\ \A k \in 1..Len(tagger) : Head(tagger[k]) = "N"
    /\ Range(synsets("bank", "n")) = {finance, shore}
    /\ finance # shore
    /\ AllSenses("river") = {"river.n.01"}
    /\ AllSenses("money") = {"money.n.01"}
    /\ path_similarity(shore, "river.n.01") = Float(9)
    /\ path_similarity(finance, "money.n.01") = Float(6)
    /\ \A a, b \in Senses :
          (a # b /\ {a, b} \notin {{shore, "river.n.01"},
                                   {finance, "money.n.01"}})
          => path_similarity(a, b) \in {PyNone, Float(0)}

\* C15: in the bank, river, money example the result for bank is shore,
\* whichever of finance and shore the taxonomy lists first.
C15_BankIsShore ==
    \A finance, shore \in {"bank.n.01", "bank.n.02"} :
        (pc = "done" /\ IsScenario(finance, shore))
        => returned[1] = <<"bank", shore>>

\* C15 witness: disambiguate returned on the example in which shore is the
\* second candidate of bank, after finance whose score is above 0 too.
C15_Witness ==
    /\ pc = "done"
    /\ IsScenario("bank.n.01", "bank.n.02")
    /\ returned[1] = <<"bank", "bank.n.02">>
    /\ compute_context_score("bank.n.01", <<"river", "money">>) = 6
    /\ compute_context_score("bank.n.02", <<"river", "money">>) = 9

----------------------------------------------------------------------------
(* Terms taken in any order *)

\* The output sequence made of the results written by index.
SlotsOutput ==
    [k \in 1..Len(tagged_terms) |->
        LET r == CHOOSE s \in slots : s[1] = k - 1 IN <<r[2], r[3]>>]

\* C16: the result written for index i, whenever it is computed and whatever
\* results exist by then, is the result the sequential loop appends for term
\* i, and once every index is written the sequence by index is the sequence
\* disambiguate returns.
C16_AnyOrderSameOutput ==
    /\ \A r \in slots :
          r[1] < Len(results) => results[r[1] + 1] = <<r[2], r[3]>>
    /\ (pc = "done" /\ \A k \in 1..Len(tagged_terms) :
                           \E r \in slots : r[1] = k - 1)
       => SlotsOutput = returned

\* C16 witness: only the last term has been written by index, with a sense,
\* and the loop has returned the document, its first term without a sense.
C16_Witness ==
    /\ pc = "done"
    /\ Len(returned) = MaxSessionLen
    /\ slots # {}
    /\ \A r \in slots : r[1] = Len(tagged_terms) - 1 /\ r[3] # "None"
    /\ returned[1][2] = "None"

----------------------------------------------------------------------------
(* Lookups that raise *)

\* The lookups of the term at position k (from 1) of the document: the term
\* itself and, when it has a candidate, the terms of its context, in order.
LookupsOf(k) ==
    LET term == tagged_terms[k][1]
        cs   == synsets(term, ClassOf(Head(tagged_terms[k][2])))
    IN  <<term>> \o
        (IF cs = <<>> THEN <<>>
         ELSE FormsExcept(tagged_terms,
                          IF k - 6 > 0 THEN k - 6 ELSE 0,
                          IF k + 5 < Len(tagged_terms)
                          THEN k + 5 ELSE Len(tagged_terms),
                          k - 1))

\* The first surface form of seq whose lookup raises.
FirstFailing(seq) ==
    seq[CHOOSE k \in 1..Len(seq) :
            seq[k] \in failing /\ \A j \in 1..(k - 1) : seq[j] \notin failing]

\* C17: a sense lookup that raises ends disambiguate with that same
\* exception: no term processed had a lookup that raised, a call that returns
\* had none at all, and a call that raised did so with the error of the first
\* lookup that raised, at the term of that lookup, with no result appended
\* for the term and none returned.
C17_LookupFailurePropagates ==
    /\ pc \in {"loop", "done", "raised"} =>
          \A k \in 1..idx : Range(LookupsOf(k)) \cap failing = {}
    /\ pc = "done" => idx = Len(tagged_terms)
    /\ pc = "raised" =>
          /\ idx < Len(tagged_terms)
          /\ Len(results) = idx
          /\ Range(LookupsOf(idx + 1)) \cap failing # {}
          /\ raised = [exc |-> "LookupError",
                       arg |-> FirstFailing(LookupsOf(idx + 1))]
          /\ doc.kind # "document"
    /\ pc # "raised" => raised = NoException

\* C17 witness: the lookup of the first term gave candidates, the lookup of
\* the term after it, as a context term, raised, and that exception has left
\* the call.
C17_Witness ==
    /\ pc = "raised"
    /\ idx = 0
    /\ Len(tagged_terms) = 2
    /\ tagged_terms[1][1] \notin failing
    /\ raised = [exc |-> "LookupError", arg |-> tagged_terms[2][1]]

\* C18: when an exception ends disambiguate at a term after the first, the
\* caller of process_single_document has the results of the terms before
\* it, as they were appended.
C18_PartialResultsKept ==
    (pc = "raised" /\ idx >= 1 /\ doc # Pending) =>
        /\ doc.kind = "document"
        /\ doc.disambiguated_terms = results

----------------------------------------------------------------------------
(* The aggregate score *)

\* C19: the score of every candidate of the term, after each number of
\* context terms added, is a number and is not negative.
C19_ScoreNeverNegative ==
    Acted =>
        \A k \in 1..Len(LastCandidates) : \A n \in 0..Len(context_terms) :
            sum_of_max(LastCandidates[k], context_terms, n) \in Nat

\* C19 witness: the candidates of bank were scored against a context with a
\* term without senses and a term to whose sense one candidate has an
\* undefined similarity and the other one that raises.
C19_Witness ==
    /\ Acted
    /\ LastTerm = "bank"
    /\ LastCandidates = <<"bank.n.01", "bank.n.02">>
    /\ context_terms = <<"zzz", "river">>
    /\ path_similarity("bank.n.01", "river.n.01") = PyNone
    /\ path_similarity("bank.n.02", "river.n.01") = Raise
    /\ compute_context_score("bank.n.01", context_terms) = 0
    /\ compute_context_score("bank.n.02", context_terms) = 0

----------------------------------------------------------------------------
(* What a call leaves unchanged *)

\* C20: no step of a disambiguate call changes the terms, the tags of the
\* tagger, the taxonomy and its lookups or the tag-to-class table of the
\* disambiguator, and the tagged sequence stays as pos_tag returned it until
\* the call ends.
C20_InputsUnchanged ==
    [][/\ terms' = terms
       /\ tagger' = tagger
       /\ taxonomy' = taxonomy
       /\ failing' = failing
       /\ self_pos_map' = self_pos_map
       /\ pc = "loop" => tagged_terms' = tagged_terms]_vars

\* C20 witness: a call on a document of MaxSessionLen terms has returned, a
\* term with a sense among them, and the table is the one of __init__.
C20_Witness ==
    /\ pc = "done"
    /\ Len(terms) = MaxSessionLen
    /\ \E k \in 1..Len(returned) : returned[k][2] # "None"
    /\ tagged_terms = [k \in 1..Len(terms) |-> <<terms[k], tagger[k]>>]
    /\ self_pos_map = pos_map

----------------------------------------------------------------------------
(* Similarity requests *)

\* How many times x occurs in seq.
Count(seq, x) == Cardinality({n \in 1..Len(seq) : seq[n] = x})

\* C21: while the candidates of a term are scored, the similarity of a
\* candidate and a sense is requested once for every occurrence, in the
\* context, of a term with that sense, whether the similarity is a number,
\* undefined or raises: as many requests as occurrences, and no request for
\* any other pair.
C21_EachPairRequestedOnce ==
    Acted =>
        /\ \A k \in 1..Len(LastCandidates) : \A s \in Senses :
              Count(calls, <<LastCandidates[k], s>>)
                  = Cardinality({j \in 1..Len(context_terms) :
                                    s \in AllSenses(context_terms[j])})
        /\ \A n \in 1..Len(calls) : InSeq(LastCandidates, calls[n][1])

\* C21 witness: river occurs twice in the context of bank, the similarity of
\* one candidate to its sense is undefined and that of the other raises, and
\* each of the two pairs was requested once for each occurrence.
C21_Witness ==
    /\ Acted
    /\ LastTerm = "bank"
    /\ context_terms = <<"river", "river">>
    /\ path_similarity("bank.n.01", "river.n.01") = PyNone
    /\ path_similarity("bank.n.02", "river.n.01") = Raise
    /\ calls = <<<<"bank.n.01", "river.n.01">>, <<"bank.n.01", "river.n.01">>,
                 <<"bank.n.02", "river.n.01">>, <<"bank.n.02", "river.n.01">>>>

----------------------------------------------------------------------------
(* scrape_papers *)

\* The paper at position k of page n of the source.
KindOf(paper) == scrape.source[paper[1]][paper[2]]

\* C22: scrape_papers returns in the end, for every limit and source.
C22_ScrapeTerminates == <>(scrape.pc = "returned")

\* C23: collected_count is never above limit, it is the number of papers
\* counted, every paper counted has its PDF file and its abstract file
\* written and neither its download nor a write failed, and when
\* scrape_papers returns collected_count is limit.
C23_CountedOnlyWhenSaved ==
    /\ scrape.collected_count <= scrape.limit
    /\ scrape.collected_count = Cardinality(scrape.counted)
    /\ scrape.counted \subseteq (scrape.pdf_files \cap scrape.txt_files)
    /\ \A paper \in scrape.counted : KindOf(paper) = "ok"
    /\ scrape.pc = "returned" => scrape.collected_count = scrape.limit

\* C23 witness: scrape_papers returned with MaxLimit papers counted, after a
\* paper whose abstract could not be written, which has its PDF file only,
\* and with a paper left on the last page it fetched.
C23_Witness ==
    /\ scrape.pc = "returned"
    /\ scrape.collected_count = MaxLimit
    /\ \E paper \in scrape.pdf_files \ scrape.txt_files :
          KindOf(paper) = "txt_write_fails"
    /\ scrape.k <= Len(scrape.papers)

----------------------------------------------------------------------------
(* index_documents *)

\* The positions of seq, in order, whose element is in S.
PositionsIn(seq, S) ==
    SelectSeq([n \in 1..Len(seq) |-> n], LAMBDA n : seq[n] \in S)

\* C24: index_documents never ends with its writer open.  A folder without
\* a .txt file gives ValueError and no writer; a call that returns has
\* committed its writer; a call that raises otherwise has cancelled it and
\* raises what left _process_documents.
C24_WriterNeverLeftOpen ==
    /\ (\A n \in 1..Len(indexer.folder) : indexer.folder[n] = "not_txt")
       => indexer.writer = "none"
    /\ indexer.pc = "returned" =>
          indexer.writer = "committed" /\ indexer.exception = "None"
    /\ indexer.pc = "raised" =>
          \/ /\ indexer.exception = "ValueError"
             /\ indexer.writer = "none"
             /\ \A n \in 1..Len(indexer.folder) :
                   indexer.folder[n] = "not_txt"
          \/ /\ indexer.exception = "CommitError"
             /\ indexer.writer = "cancelled"
             /\ indexer.commits = 0

\* C24 witness: the commit raised after a document was added, the writer was
\* cancelled and the exception left index_documents.
C24_Witness ==
    /\ indexer.pc = "raised"
    /\ indexer.exception = "CommitError"
    /\ indexer.writer = "cancelled"
    /\ indexer.indexed_count >= 1

\* C25: a file that cannot be loaded or added does not end the loop of
\* _process_documents: while it runs indexed_count is the number of
\* documents added, and when it returns every .txt file had its turn, the
\* writer was committed once, the documents added are those of the files
\* that loaded and added, in order, and the count returned is their number.
C25_FailedFileIsSkipped ==
    /\ indexer.indexed_count = Len(indexer.added)
    /\ indexer.pc = "returned" =>
          /\ indexer.i = Len(indexer.files)
          /\ indexer.commits = 1
          /\ indexer.added
                = PositionsIn(indexer.folder, {"ok", "callback_raises"})
          /\ indexer.result = Len(indexer.added)

\* C25 witness: index_documents returned 1 for a folder of MaxFolder files,
\* the first of which could not be loaded and another not added.
C25_Witness ==
    /\ indexer.pc = "returned"
    /\ Len(indexer.folder) = MaxFolder
    /\ indexer.folder[1] = "load_fails"
    /\ \E n \in 1..Len(indexer.folder) : indexer.folder[n] = "add_fails"
    /\ indexer.result = 1
    /\ indexer.commits = 1

----------------------------------------------------------------------------
(* WhooshBenchmarkEngine *)

\* C26: after every call on the engine at most one searcher is open, the
\* one the engine holds, and none when it holds none; every search of a
\* run_query or run_benchmark call went through the searcher held, open at
\* the time; prepare on an engine that holds a searcher keeps it and opens
\* none; after cleanup the engine holds no searcher and none is open.
C26_AtMostOneOpenSearcher ==
    /\ Cardinality(engine.open) <= 1
    /\ engine.open = Range(engine.searcher)
    /\ \A n \in 1..Len(engine.searched) :
          /\ engine.searched[n].open
          /\ engine.searched[n].through = engine.searcher
    /\ engine.last.call = "run_query" => Len(engine.searched) = 1
    /\ (engine.last.call = "prepare" /\ engine.last.held # <<>>) =>
          /\ engine.searcher = engine.last.held
          /\ engine.opened = engine.last.opened
    /\ engine.last.call = "cleanup" =>
          engine.searcher = <<>> /\ engine.open = {}

\* C26 witness: run_query after a cleanup, on an engine that held a searcher
\* before the cleanup, searched through a second searcher, the only one open.
C26_Witness ==
    /\ engine.last.call = "run_query"
    /\ engine.last.held = <<>>
    /\ engine.searcher = <<2>>
    /\ engine.open = {2}
    /\ engine.searched = <<[through |-> <<2>>, open |-> TRUE]>>

----------------------------------------------------------------------------
(* parse_benchmark_file *)

\* Line n of the file is a relevance entry before any query line, or a line
\* that is neither blank, comment, query nor entry.
Offending(file, n) ==
    \/ file[n].kind = "other"
    \/ /\ file[n].kind = "entry"
       /\ \A m \in 1..(n - 1) : file[m].kind # "query"

\* The query of the query line at position p: its text and the number of
\* entry lines from p to the next query line or the end of the file.
QueryAt(file, p) ==
    [query |-> file[p].text,
     expected_relevant_docs |->
        Cardinality({n \in (p + 1)..Len(file) :
                        /\ file[n].kind = "entry"
                        /\ \A m \in (p + 1)..n : file[m].kind # "query"})]

\* C27: on a file without an offending line parse_benchmark_file returns one
\* query per query line, in the order of the lines, each with the number of
\* entry lines up to the next query line or the end of the file.
C27_OneQueryPerQueryLine ==
    (/\ loader.pc \in {"returned", "raised"}
     /\ \A n \in 1..Len(loader.file) : ~Offending(loader.file, n))
    => /\ loader.pc = "returned"
       /\ LET ps == PositionsIn([n \in 1..Len(loader.file) |->
                                    loader.file[n].kind], {"query"})
          IN  loader.result
                 = [j \in 1..Len(ps) |-> QueryAt(loader.file, ps[j])]

\* C27 witness: a file of MaxLines lines with two query lines, the first
\* followed by an entry, gave two queries, of 1 and 0 relevant documents.
C27_Witness ==
    /\ loader.pc = "returned"
    /\ Len(loader.file) = MaxLines
    /\ Len(loader.result) = 2
    /\ loader.result[1].expected_relevant_docs = 1
    /\ loader.result[2].expected_relevant_docs = 0

\* C28: on a file with an offending line parse_benchmark_file raises
\* ValueError at the first such line and returns nothing, and it raises on
\* no other file.
C28_OffendingLineRaises ==
    /\ (/\ loader.pc \in {"returned", "raised"}
        /\ \E n \in 1..Len(loader.file) : Offending(loader.file, n))
       => /\ loader.pc = "raised"
          /\ loader.result = <<>>
          /\ loader.exception.type = "ValueError"
          /\ Offending(loader.file, loader.exception.line_num)
          /\ \A m \in 1..(loader.exception.line_num - 1) :
                ~Offending(loader.file, m)
    /\ loader.pc = "raised" =>
          \E n \in 1..Len(loader.file) : Offending(loader.file, n)
    /\ loader.pc = "loop" =>
          \A n \in 1..loader.line_num : ~Offending(loader.file, n)

\* C28 witness: ValueError was raised for a line that is neither query nor
\* entry, after a query with an entry had been read, and nothing was
\* returned.
C28_Witness ==
    /\ loader.pc = "raised"
    /\ loader.exception.line_num >= 3
    /\ loader.file[loader.exception.line_num].kind = "other"
    /\ loader.current_query # <<>>
    /\ loader.current_relevance >= 1
    /\ loader.result = <<>>

----------------------------------------------------------------------------
(* MetricsEvaluator *)

\* The fraction lies in [0, 1].
InUnit(f) == 0 <= f.num /\ f.num <= f.den

\* C29: for results of relevance 0 or 1 and expected_relevant >= 0 the
\* precision, the recall, the average precision and the nDCG each lie in
\* [0, 1], and all four are 0 for an empty result list.
C29_MetricsInUnitInterval ==
    evaluator.pc = "returned" =>
        /\ InUnit(evaluator.precision)
        /\ InUnit(evaluator.recall)
        /\ InUnit(evaluator.average_precision)
        /\ InUnit(evaluator.ndcg)
        /\ evaluator.results = <<>> =>
              /\ evaluator.precision.num = 0
              /\ evaluator.recall.num = 0
              /\ evaluator.average_precision.num = 0
              /\ evaluator.ndcg.num = 0

\* The part of C29 the code keeps: everything but the upper limit of the
\* recall.
C29_AllButRecallInUnitInterval ==
    evaluator.pc = "returned" =>
        /\ InUnit(evaluator.precision)
        /\ evaluator.recall.num >= 0
        /\ InUnit(evaluator.average_precision)
        /\ InUnit(evaluator.ndcg)
        /\ evaluator.results = <<>> =>
              /\ evaluator.precision.num = 0
              /\ evaluator.recall.num = 0
              /\ evaluator.average_precision.num = 0
              /\ evaluator.ndcg.num = 0
        /\ relevant_in(evaluator.results) <= evaluator.expected_relevant =>
              InUnit(evaluator.recall)

----------------------------------------------------------------------------
(* process_documents *)

\* The callback was called once per PDF file, in file order.
OncePerFileInOrder ==
    /\ Len(processor.callbacks) = Len(processor.files)
    /\ \A k \in 1..Len(processor.callbacks) :
          processor.callbacks[k].file = processor.files[k]

\* The percentages never decrease and the last one is 100.
NonDecreasingTo100 ==
    /\ \A k \in 1..(Len(processor.callbacks) - 1) :
          processor.callbacks[k].progress
             <= processor.callbacks[k + 1].progress
    /\ processor.callbacks[Len(processor.callbacks)].progress = 100

\* The returned list is the PDF files for which process_single_document
\* returned a document, in file order.
ReturnedTheProcessed ==
    LET good == {n \in 1..Len(processor.folder) :
                    processor.folder[n] \in {"ok", "save_fails"}}
        at   == PositionsIn([k \in 1..Len(processor.files) |->
                                IF processor.files[k] \in good
                                THEN "good" ELSE "bad"], {"good"})
    IN  processor.result = [j \in 1..Len(at) |-> processor.files[at[j]]]

\* C30: process_documents calls progress_callback once per PDF file, in file
\* order, with non-decreasing percentages in 1..100 the last of which is
\* 100, whether or not the file was processed; a failing file is skipped,
\* and the returned list is the processed documents in file order.
C30_ProgressOncePerFile ==
    (processor.pc = "returned" /\ processor.progress_callback = "given") =>
        /\ OncePerFileInOrder
        /\ \A k \in 1..Len(processor.callbacks) :
              processor.callbacks[k].progress \in 1..100
        /\ NonDecreasingTo100
        /\ ReturnedTheProcessed

\* C30 (amended): process_documents calls progress_callback once per PDF
\* file, in file order, with non-decreasing percentages in 0..100 the last
\* of which is 100, and in 1..100 for at most 100 PDF files, whether or not
\* the file was processed; a failing file is skipped, and the returned list
\* is the processed documents in file order.
C30_ProgressFromZero ==
    (processor.pc = "returned" /\ processor.progress_callback = "given") =>
        /\ OncePerFileInOrder
        /\ \A k \in 1..Len(processor.callbacks) :
              /\ processor.callbacks[k].progress \in 0..100
              /\ Len(processor.files) <= 100 =>
                    processor.callbacks[k].progress >= 1
        /\ NonDecreasingTo100
        /\ ReturnedTheProcessed

\* C30 witness: a run over ManyPdfFiles files returned after as many calls
\* of the callback, the first with 0 and the last with 100.
C30_Witness ==
    /\ processor.pc = "returned"
    /\ processor.progress_callback = "given"
    /\ Len(processor.files) = ManyPdfFiles
    /\ Len(processor.callbacks) = ManyPdfFiles
    /\ processor.callbacks[1].progress = 0
    /\ processor.callbacks[ManyPdfFiles].progress = 100

\* A run over a small folder in which a file failed between two processed
\* ones returned the two, after three calls of the callback.
C30_SkippedWitness ==
    /\ processor.pc = "returned"
    /\ processor.progress_callback = "given"
    /\ processor.folder = <<"ok", "fails", "save_fails">>
    /\ processor.result = <<1, 3>>
    /\ Len(processor.callbacks) = 3

====
